---- MODULE Spec2Model ----
(***************************************************************************)
(* nodoze: the scheduler loop of daemon::run (src/src/daemon.rs) and the   *)
(* playback session of audio::play_tone with its real-time callback        *)
(* write_samples (src/src/audio.rs).                                       *)
(*                                                                         *)
(* Two threads: the controller (run, which calls play_tone synchronously)  *)
(* and the audio callback the backend invokes while a stream is playing.   *)
(* The environment owns the wall clock: it advances while the controller   *)
(* sleeps, jumps forward over a system sleep and can be set backward.      *)
(* All times are in milliseconds.                                          *)
(*                                                                         *)
(* Spec follows the scheduler and the session as a whole. SessSpec,        *)
(* DrainSpec and RaceSpec follow the callback of one started session frame *)
(* by frame (write_samples and the conversion to the device's format);     *)
(* HostSpec follows get_device and list_devices on every host. Sample      *)
(* values are exact fractions <<numerator, denominator>>.                  *)
(***************************************************************************)
EXTENDS Integers, Sequences, FiniteSets, TLC

\* ------------------------------------------------------------------ bounds
MaxWallSecs == 3      \* horizon of the wall clock, seconds
MaxInterval == 2      \* config.interval ranges over 0..MaxInterval seconds
MaxDuration == 1      \* config.duration ranges over 0..MaxDuration seconds
MaxRate == 1          \* negotiated sample rate ranges over 1..MaxRate frames/s
MaxBuf == 2           \* frames handed to one callback invocation: 1..MaxBuf
MaxJumpSecs == 2      \* largest single step of the wall clock, seconds
MaxPolls == 1         \* wait-loop sleeps of one call that move the wall clock
MaxFade == 4          \* fade_samples ranges over 0..MaxFade frames
MaxTone == 4          \* config.duration of a session followed frame by frame
MaxChannels == 2      \* negotiated channel count ranges over 1..MaxChannels
MaxDevices == 2       \* the host enumerates 0..MaxDevices output devices

\* ------------------------------------------------------- program constants
MsPerSec == 1000          \* Duration::from_secs
POLL_INTERVAL == 1000     \* Duration::from_secs(1)
RETRY_DELAY == 5000       \* Duration::from_secs(5)
WAIT_POLL == 100          \* Duration::from_millis(100), completion poll
DRAIN_DELAY == 50         \* Duration::from_millis(50)
UNIX_EPOCH == 0           \* SystemTime::UNIX_EPOCH
I16_MAX == 32767          \* i16::MAX
I16_MIN == -32768         \* i16::MIN, where the cast to i16 saturates
U16_MAX == 65535          \* u16::MAX

MaxWall == MaxWallSecs * MsPerSec
WaitCap == RETRY_DELAY + POLL_INTERVAL   \* waited is counted up to here

Min(a, b) == IF a <= b THEN a ELSE b

VARIABLES
    wall,           \* the wall clock, SystemTime::now(), ms since the epoch
    interval,       \* config.interval, seconds
    duration,       \* config.duration, seconds
    pc,             \* position of the controller thread
    site,           \* the call of play_tone made last: "init" or "loop"
    last_play,      \* run's local last_play
    result,         \* what play_tone returned last: "ok" or "err"
    stream,         \* play_tone's stream: "none", "built" or "playing"
    live,           \* number of output streams that exist
    total_samples,  \* play_tone's total_samples
    sample_clock,   \* the session's AtomicU64
    finished,       \* the session's AtomicBool
    call_wall,      \* history: wall clock when the play_tone call began
    waited,         \* history: ms run slept between play_tone's last return
                    \* and the latest poll
    polls,          \* history: sleeps of this call's wait loop, up to MaxPolls
    observed,       \* history: this call has loaded finished = true
    drained,        \* history: this call slept the drain delay
    error,          \* the message of the Err play_tone returned, "none" if none
    fade_samples,   \* play_tone's fade_samples
    channels,       \* play_tone's channels
    format,         \* supported_config.sample_format()
    volume,         \* play_tone's volume, a fraction <<numerator, denominator>>
    inv,            \* the invocations of the output callback in progress
    indices,        \* history: the values fetch_add returned, in order
    frames,         \* history: the number of frames write_samples has written
    delivered,      \* history: the buffer the callback completed last
    devices,        \* host.output_devices(): the device names, in order
    default_device, \* host.default_output_device(): its place, 0 if none
    enum_ok,        \* host.output_devices() is Ok
    name,           \* the device name asked for (config.device)
    out             \* what get_device or list_devices returned

\* The session's parameters and the callback followed frame by frame.
frameVars == <<fade_samples, channels, format, volume, inv, indices, frames,
               delivered>>

\* The audio host and the device selection.
hostVars == <<devices, default_device, enum_ok, name, out>>

\* What the scheduler's specification leaves alone.
auxVars == <<frameVars, hostVars>>

vars == <<wall, interval, duration, pc, site, last_play, result, stream, live,
          total_samples, sample_clock, finished, call_wall, waited, polls,
          observed, drained, error, auxVars>>

cfgVars == <<interval, duration>>
sessVars == <<stream, live, total_samples, sample_clock, finished>>
callVars == <<call_wall, observed, drained>>

\* The scheduler and the playback session as run and play_tone see them.
schedVars == <<wall, interval, duration, pc, site, last_play, result, stream,
               live, total_samples, sample_clock, finished, call_wall, waited,
               polls, observed, drained, error>>

\* The callbacks the backend may have in progress.
Invokers == {"cb1", "cb2"}

\* A callback that is not running: no frames asked for, no index in hand.
Idle == [k |-> 0, n |-> <<>>, buf |-> <<>>]

\* No buffer completed yet.
NoBuffer == [ns |-> <<>>, floats |-> <<>>, data |-> <<>>]

\* Neither get_device nor list_devices has returned.
NoOut == [op |-> "none", ok |-> FALSE, dev |-> 0, names |-> <<>>, err |-> "none"]

\* The fractions 0 and 1.
Zero == <<0, 1>>
One == <<1, 1>>

\* No callback followed frame by frame.
FrameRest ==
    /\ fade_samples = 0
    /\ channels = 1
    /\ format = "F32"
    /\ volume = One
    /\ inv = [a \in Invokers |-> Idle]
    /\ indices = <<>>
    /\ frames = 0
    /\ delivered = NoBuffer

\* No host looked at.
HostRest ==
    /\ devices = <<>>
    /\ default_device = 0
    /\ enum_ok = TRUE
    /\ name = <<>>
    /\ out = NoOut

\* Duration::from_secs(config.interval)
IntervalMs == interval * MsPerSec

\* The wall clock d ms later; the model holds it at its horizon.
Later(d) == Min(wall + d, MaxWall)

Init ==
    /\ wall = 0
    /\ interval \in 0..MaxInterval
    /\ duration \in 0..MaxDuration
    /\ pc = "start"
    /\ site = "init"
    /\ last_play = UNIX_EPOCH
    /\ result = "ok"
    /\ stream = "none"
    /\ live = 0
    /\ total_samples = 0
    /\ sample_clock = 0
    /\ finished = FALSE
    /\ call_wall = 0
    /\ waited = 0
    /\ polls = 0
    /\ observed = FALSE
    /\ drained = FALSE
    /\ error = "none"
    /\ FrameRest
    /\ HostRest

\* ------------------------------------------------------------- play_tone

\* The messages of the errors get_device returns (lines 21, 26, 36).
GetDeviceErrors ==
    {"No default output device found", "Failed to enumerate devices",
     "No output device matching found"}

\* cpal's sample formats: the three play_tone matches, and one of the others.
SampleFormats == {"F32", "I16", "U16", "Other"}

\* The formats play_tone builds a stream for (lines 101, 119, 141).
Supported == {"F32", "I16", "U16"}

\* Entry of play_tone from call site s.
CallPlayTone(s) ==
    /\ pc' = "get_device"
    /\ site' = s
    /\ call_wall' = wall
    /\ polls' = 0
    /\ observed' = FALSE
    /\ drained' = FALSE

\* play_tone returns r: its locals (the atomics among them) go out of scope.
Return(r) ==
    /\ pc' = "ret"
    /\ result' = r
    /\ total_samples' = 0
    /\ sample_clock' = 0
    /\ finished' = FALSE
    /\ polls' = 0
    /\ waited' = 0

\* play_tone returns Err(e).
Fail(e) ==
    /\ Return("err")
    /\ error' = e

\* let device = get_device(&config.device)?;
GetDevice ==
    /\ pc = "get_device"
    /\ \/ /\ pc' = "output_config"
          /\ waited' = 0
          /\ UNCHANGED <<result, error, total_samples, sample_clock, finished,
                         polls>>
       \/ \E e \in GetDeviceErrors : Fail(e)
    /\ UNCHANGED <<wall, cfgVars, auxVars, stream, live, site, last_play,
                   callVars>>

\* device.default_output_config()?, total_samples, the two atomics.
OutputConfig ==
    /\ pc = "output_config"
    /\ \/ /\ \E rate \in 1..MaxRate : total_samples' = duration * rate
          /\ sample_clock' = 0
          /\ finished' = FALSE
          /\ pc' = "build"
          /\ UNCHANGED <<result, error, waited, polls>>
       \/ Fail("Failed to get default output config")
    /\ UNCHANGED <<wall, cfgVars, auxVars, stream, live, site, last_play,
                   callVars>>

\* BuildStream that builds the stream before it looks at the sample format.
BuildStream_BuildFirst ==
    /\ pc = "build"
    /\ \E fmt \in SampleFormats :
          \/ /\ stream' = "built"
             /\ live' = live + 1
             /\ IF fmt \in Supported
                   THEN /\ pc' = "play"
                        /\ UNCHANGED <<result, error, total_samples,
                                       sample_clock, finished, waited, polls>>
                   ELSE Fail("Unsupported sample format")
          \/ /\ Fail("Failed to build output stream")
             /\ UNCHANGED <<stream, live>>
    /\ UNCHANGED <<wall, cfgVars, auxVars, site, last_play, callVars>>

\* match supported_config.sample_format() { ... build_output_stream ... }?
\* The arm of any other format returns before a stream is built.
BuildStream ==
    /\ pc = "build"
    /\ \E fmt \in SampleFormats :
          IF fmt \in Supported
             THEN \/ /\ stream' = "built"
                     /\ live' = live + 1
                     /\ pc' = "play"
                     /\ UNCHANGED <<result, error, total_samples, sample_clock,
                                    finished, waited, polls>>
                  \/ /\ Fail("Failed to build output stream")
                     /\ UNCHANGED <<stream, live>>
             ELSE /\ Fail("Unsupported sample format")
                  /\ UNCHANGED <<stream, live>>
    /\ UNCHANGED <<wall, cfgVars, auxVars, site, last_play, callVars>>

\* StreamPlay that leaks the stream when play() fails (it is never dropped).
StreamPlay_Leak ==
    /\ pc = "play"
    /\ \/ /\ stream' = "playing"
          /\ pc' = "wait"
          /\ UNCHANGED <<live, result, error, total_samples, sample_clock,
                         finished, waited, polls>>
       \/ /\ stream' = "none"
          /\ UNCHANGED live
          /\ Fail("Failed to play stream")
    /\ UNCHANGED <<wall, cfgVars, auxVars, site, last_play, callVars>>

\* stream.play()?; on Err the stream goes out of scope and is dropped.
StreamPlay ==
    /\ pc = "play"
    /\ \/ /\ stream' = "playing"
          /\ pc' = "wait"
          /\ UNCHANGED <<live, result, error, total_samples, sample_clock,
                         finished, waited, polls>>
       \/ /\ stream' = "none"
          /\ live' = live - 1
          /\ Fail("Failed to play stream")
    /\ UNCHANGED <<wall, cfgVars, auxVars, site, last_play, callVars>>

\* WaitLoad that leaves the wait loop without looking at the flag.
WaitLoad_NoWait ==
    /\ pc = "wait"
    /\ pc' = "drain"
    /\ observed' = finished
    /\ UNCHANGED <<wall, cfgVars, auxVars, error, sessVars, site, last_play,
                   result, call_wall, waited, polls, drained>>

\* while !finished.load(Relaxed) { ... }
WaitLoad ==
    /\ pc = "wait"
    /\ IF finished
          THEN pc' = "drain" /\ observed' = TRUE
          ELSE pc' = "wait_sleep" /\ UNCHANGED observed
    /\ UNCHANGED <<wall, cfgVars, auxVars, error, sessVars, site, last_play,
                   result, call_wall, waited, polls, drained>>

\* thread::sleep(Duration::from_millis(100)) in the wait loop. Past MaxPolls
\* sleeps of one call the model holds the wall clock, as it does at MaxWall.
WaitSleep ==
    /\ pc = "wait_sleep"
    /\ wall' = IF polls < MaxPolls THEN Later(WAIT_POLL) ELSE wall
    /\ polls' = Min(polls + 1, MaxPolls)
    /\ pc' = "wait"
    /\ UNCHANGED <<cfgVars, auxVars, error, sessVars, site, last_play, result,
                   waited, call_wall, observed, drained>>

\* thread::sleep(Duration::from_millis(50)): let the stream drain.
DrainSleep ==
    /\ pc = "drain"
    /\ wall' = Later(DRAIN_DELAY)
    /\ drained' = TRUE
    /\ pc' = "drop"
    /\ UNCHANGED <<cfgVars, auxVars, error, sessVars, site, last_play, result,
                   waited, call_wall, polls, observed>>

\* drop(stream); Ok(())
DropStream ==
    /\ pc = "drop"
    /\ stream' = "none"
    /\ live' = live - 1
    /\ Return("ok")
    /\ UNCHANGED <<wall, cfgVars, auxVars, error, site, last_play, callVars>>

\* ---------------------------------------------------------- write_samples

\* The frame loop of write_samples over k frames: the sample clock after it.
ClockAfter(clock, k) == clock + k

\* FinishedAfter with the store of the completion flag left out.
FinishedAfter_NoStore(fin, clock, k, total) == fin

\* The frame loop of write_samples over k frames: the completion flag after it
\* (stored true by every frame whose index n = fetch_add(1) is >= total).
FinishedAfter(fin, clock, k, total) ==
    fin \/ \E n \in clock..(clock + k - 1) : n >= total

\* One invocation of the output callback by the backend, with k frames.
Callback ==
    /\ stream = "playing"
    /\ sample_clock < total_samples + MaxBuf
    /\ \E k \in 1..MaxBuf :
          /\ sample_clock' = ClockAfter(sample_clock, k)
          /\ finished' = FinishedAfter(finished, sample_clock, k, total_samples)
    /\ UNCHANGED <<wall, cfgVars, auxVars, error, pc, site, last_play, result,
                   stream, live, total_samples, waited, polls, callVars>>

\* ------------------------------------------------------------ daemon::run

\* thread::sleep(d) in run: d ms pass on the wall clock and on the monotonic
\* clock that waited measures.
Sleep(d) ==
    /\ wall' = Later(d)
    /\ waited' = Min(waited + d, WaitCap)

\* Elapsed with a clock error read as the time the clock is behind last_play
\* (the duration the SystemTimeError carries).
Elapsed_Behind(now, last) == IF now >= last THEN now - last ELSE last - now

\* Elapsed with a clock error read as no time elapsed (unwrap_or_default).
Elapsed_Zero(now, last) == IF now >= last THEN now - last ELSE 0

\* last_play.elapsed().unwrap_or(interval)
Elapsed(now, last) == IF now >= last THEN now - last ELSE IntervalMs

\* Play immediately on startup: audio::play_tone(config), line 28.
RunStart ==
    /\ pc = "start"
    /\ CallPlayTone("init")
    /\ UNCHANGED <<wall, cfgVars, auxVars, error, sessVars, last_play, result,
                   waited>>

\* The match on the initial play_tone's result, lines 28-38.
InitialResult ==
    /\ pc = "ret"
    /\ site = "init"
    /\ last_play' = IF result = "ok" THEN wall ELSE UNIX_EPOCH
    /\ pc' = "poll_sleep"
    /\ error' = "none"
    /\ UNCHANGED <<wall, cfgVars, auxVars, sessVars, site, result, waited,
                   polls, callVars>>

\* std::thread::sleep(POLL_INTERVAL), line 41.
PollSleep ==
    /\ pc = "poll_sleep"
    /\ Sleep(POLL_INTERVAL)
    /\ pc' = "check"
    /\ call_wall' = 0
    /\ UNCHANGED <<cfgVars, auxVars, error, sessVars, site, last_play, result,
                   polls, observed, drained>>

\* Poll with the due test written elapsed > interval.
Poll_Strict ==
    /\ pc = "check"
    /\ IF Elapsed(wall, last_play) > IntervalMs
          THEN CallPlayTone("loop")
          ELSE /\ pc' = "poll_sleep"
               /\ UNCHANGED <<site, polls, callVars>>
    /\ UNCHANGED <<wall, cfgVars, auxVars, error, sessVars, last_play, result,
                   waited>>

\* One poll: elapsed is computed and the tone is started when it is due.
Poll ==
    /\ pc = "check"
    /\ IF Elapsed(wall, last_play) >= IntervalMs
          THEN CallPlayTone("loop")
          ELSE /\ pc' = "poll_sleep"
                          /\ UNCHANGED <<site, polls, callVars>>
    /\ UNCHANGED <<wall, cfgVars, auxVars, error, sessVars, last_play, result,
                   waited>>

\* LoopResult that resets last_play to the epoch on a failure, as the initial
\* match does.
LoopResult_ResetOnErr ==
    /\ pc = "ret"
    /\ site = "loop"
    /\ IF result = "ok"
          THEN last_play' = wall /\ pc' = "poll_sleep"
          ELSE last_play' = UNIX_EPOCH /\ pc' = "retry_sleep"
    /\ error' = "none"
    /\ UNCHANGED <<wall, cfgVars, auxVars, sessVars, site, result, waited,
                   polls, callVars>>

\* LoopResult that forgets to store the new timestamp after a success.
LoopResult_NoUpdate ==
    /\ pc = "ret"
    /\ site = "loop"
    /\ pc' = IF result = "ok" THEN "poll_sleep" ELSE "retry_sleep"
    /\ error' = "none"
    /\ UNCHANGED <<wall, cfgVars, auxVars, sessVars, site, last_play, result,
                   waited, polls, callVars>>

\* LoopResult that stores the time the call began instead of the time now.
LoopResult_StartStamp ==
    /\ pc = "ret"
    /\ site = "loop"
    /\ IF result = "ok"
          THEN last_play' = call_wall /\ pc' = "poll_sleep"
          ELSE UNCHANGED last_play /\ pc' = "retry_sleep"
    /\ error' = "none"
    /\ UNCHANGED <<wall, cfgVars, auxVars, sessVars, site, result, waited,
                   polls, callVars>>

\* LoopResult that leaves the loop on a playback error.
LoopResult_Exit ==
    /\ pc = "ret"
    /\ site = "loop"
    /\ IF result = "ok"
          THEN last_play' = wall /\ pc' = "poll_sleep"
          ELSE UNCHANGED last_play /\ pc' = "exit"
    /\ error' = "none"
    /\ UNCHANGED <<wall, cfgVars, auxVars, sessVars, site, result, waited,
                   polls, callVars>>

\* The match on the loop's play_tone result, lines 46-64.
LoopResult ==
    /\ pc = "ret"
    /\ site = "loop"
    /\ IF result = "ok"
          THEN last_play' = wall /\ pc' = "poll_sleep"
          ELSE UNCHANGED last_play /\ pc' = "retry_sleep"
    /\ error' = "none"
    /\ UNCHANGED <<wall, cfgVars, auxVars, sessVars, site, result, waited,
                   polls, callVars>>

\* RetrySleep that sleeps the poll interval instead of the retry delay.
RetrySleep_Short ==
    /\ pc = "retry_sleep"
    /\ Sleep(POLL_INTERVAL)
    /\ pc' = "poll_sleep"
    /\ call_wall' = 0
    /\ UNCHANGED <<cfgVars, auxVars, error, sessVars, site, last_play, result,
                   polls, observed, drained>>

\* std::thread::sleep(RETRY_DELAY), line 62.
RetrySleep ==
    /\ pc = "retry_sleep"
    /\ Sleep(RETRY_DELAY)
    /\ pc' = "poll_sleep"
    /\ call_wall' = 0
    /\ UNCHANGED <<cfgVars, auxVars, error, sessVars, site, last_play, result,
                   polls, observed, drained>>

\* ------------------------------------------------------------ environment

\* The positions at which run is asleep, where the daemon spends the time
\* between two tones: the clock changes of the environment are taken there.
Sleeping == pc \in {"poll_sleep", "retry_sleep"}

\* The machine sleeps: the wall clock moves forward, no thread runs and the
\* monotonic clock stands still.
SystemSleep ==
    /\ Sleeping
    /\ \E s \in 1..MaxJumpSecs :
          /\ wall + s * MsPerSec <= MaxWall
          /\ wall' = wall + s * MsPerSec
    /\ UNCHANGED <<cfgVars, auxVars, error, sessVars, pc, site, last_play,
                   result, waited, polls, callVars>>

\* The wall clock is set backward (by the user or by time synchronisation).
ClockSetBack ==
    /\ Sleeping
    /\ \E s \in 1..MaxJumpSecs :
          /\ wall - s * MsPerSec >= 0
          /\ wall' = wall - s * MsPerSec
    /\ UNCHANGED <<cfgVars, auxVars, error, sessVars, pc, site, last_play,
                   result, waited, polls, callVars>>

\* ------------------------------------------- write_samples, frame by frame

\* (2.0 * PI * frequency * t).sin() with t = n / sample_rate, for a frequency
\* of a quarter of the sample rate: 0, 1, 0, -1, ...
Sine(n) ==
    CASE n % 4 = 1 -> 1
      [] n % 4 = 3 -> -1
      [] OTHER -> 0

\* Envelope with a fade in that starts one step up.
Envelope_StepUp(n, total, fade) ==
    IF n < fade
       THEN <<n + 1, fade>>
       ELSE IF n > total - fade
               THEN <<total - n, fade>>
               ELSE One

\* Envelope with a fade out that stays at the level it starts from.
Envelope_FlatOut(n, total, fade) ==
    IF n < fade
       THEN <<n, fade>>
       ELSE IF n > total - fade
               THEN <<fade - 1, fade>>
               ELSE One

\* Envelope with the fade in tested n <= fade_samples.
Envelope_Inclusive(n, total, fade) ==
    IF n <= fade
       THEN <<n, fade>>
       ELSE IF n > total - fade
               THEN <<total - n, fade>>
               ELSE One

\* The fade envelope of frame n, a fraction <<numerator, denominator>>.
Envelope(n, total, fade) ==
    IF n < fade
       THEN <<n, fade>>
       ELSE IF n > total - fade
               THEN <<total - n, fade>>
               ELSE One

\* let sample = (value * envelope) as f32 * volume;
Sample(n, total, fade, vol) ==
    LET envelope == Envelope(n, total, fade)
    IN  <<Sine(n) * envelope[1] * vol[1], envelope[2] * vol[2]>>

\* Frame with the sample in the first channel only.
Frame_FirstOnly(x, ch) == [c \in 1..ch |-> IF c = 1 THEN x ELSE Zero]

\* One frame: the sample written to each of its channels.
Frame(x, ch) == [c \in 1..ch |-> x]

\* The values config.volume is drawn from.
ConfigVolumes == {<<-1, 2>>, <<0, 1>>, <<1, 2>>, <<1, 1>>, <<3, 2>>}

\* config.volume.clamp(0.0, 1.0)
Clamp(v) == IF v[1] < 0 THEN Zero ELSE IF v[1] > v[2] THEN One ELSE v

\* A float to integer cast: toward zero.
Trunc(a, b) == IF a >= 0 THEN a \div b ELSE -((-a) \div b)

\* A float to integer cast saturates at the bounds of the integer type.
Saturate(v, lo, hi) == IF v < lo THEN lo ELSE IF v > hi THEN hi ELSE v

\* (sample * i16::MAX as f32) as i16
ToI16(x) == Saturate(Trunc(x[1] * I16_MAX, x[2]), I16_MIN, I16_MAX)

\* ToU16 without the shift to mid-scale.
ToU16_NoShift(x) == Saturate(Trunc(x[1] * U16_MAX, x[2]), 0, U16_MAX)

\* ((sample * 0.5 + 0.5) * u16::MAX as f32) as u16
ToU16(x) == Saturate(Trunc((x[1] + x[2]) * U16_MAX, 2 * x[2]), 0, U16_MAX)

\* What the callback of each format hands to the device for a sample; the f32
\* callback writes the samples into the device's buffer itself.
ToWire(fmt, x) ==
    CASE fmt = "I16" -> ToI16(x)
      [] fmt = "U16" -> ToU16(x)
      [] OTHER -> x

\* A session whose stream has just started: the state play_tone is in after
\* stream.play() returned Ok, the atomics as lines 90-91 made them.
SessionStart ==
    /\ wall = 0
    /\ interval = 0
    /\ pc = "wait"
    /\ site = "init"
    /\ last_play = UNIX_EPOCH
    /\ result = "ok"
    /\ stream = "playing"
    /\ live = 1
    /\ sample_clock = 0
    /\ finished = FALSE
    /\ call_wall = 0
    /\ waited = 0
    /\ polls = 0
    /\ observed = FALSE
    /\ drained = FALSE
    /\ error = "none"
    /\ inv = [a \in Invokers |-> Idle]
    /\ indices = <<>>
    /\ frames = 0
    /\ delivered = NoBuffer
    /\ HostRest

\* A started session with any of the parameters of lines 82-88.
SessInit ==
    /\ SessionStart
    /\ duration \in 0..MaxTone
    /\ \E rate \in 1..MaxRate : total_samples = duration * rate
    /\ fade_samples \in 0..MaxFade
    /\ channels \in 1..MaxChannels
    /\ format \in Supported
    /\ volume \in {Clamp(v) : v \in ConfigVolumes}

\* A started session of one f32 channel at full volume, without fades.
RaceInit ==
    /\ SessionStart
    /\ duration \in 0..MaxDuration
    /\ \E rate \in 1..MaxRate : total_samples = duration * rate
    /\ fade_samples = 0
    /\ channels = 1
    /\ format = "F32"
    /\ volume = One

\* A started f32 session at full volume, with any number of channels.
DrainInit ==
    /\ SessionStart
    /\ duration \in 0..MaxDuration
    /\ \E rate \in 1..MaxRate : total_samples = duration * rate
    /\ fade_samples \in 0..MaxFade
    /\ channels \in 1..MaxChannels
    /\ format = "F32"
    /\ volume = One

\* The backend invokes the output callback a with a buffer of k frames.
CallbackBegin(a) ==
    /\ stream = "playing"
    /\ inv[a] = Idle
    /\ sample_clock < total_samples + MaxBuf
    /\ \E k \in 1..MaxBuf : inv' = [inv EXCEPT ![a] = [Idle EXCEPT !.k = k]]
    /\ UNCHANGED <<schedVars, hostVars, fade_samples, channels, format, volume,
                   indices, frames, delivered>>

\* FetchAdd as a load and a store that are not one atomic step: a callback may
\* be handed the index another callback has just taken.
FetchAdd_Racy(a) ==
    /\ Len(inv[a].buf) < inv[a].k
    /\ inv[a].n = <<>>
    /\ \E n \in {sample_clock} \cup
                 {m \in {sample_clock - 1} :
                     \E b \in Invokers \ {a} : inv[b].n = <<m>>} :
          /\ inv' = [inv EXCEPT ![a].n = <<n>>]
          /\ sample_clock' = n + 1
          /\ indices' = Append(indices, n)
    /\ UNCHANGED <<wall, cfgVars, pc, site, last_play, result, stream, live,
                   total_samples, finished, call_wall, waited, polls, observed,
                   drained, error, hostVars, fade_samples, channels, format,
                   volume, frames, delivered>>

\* let n = sample_clock.fetch_add(1, Relaxed);
FetchAdd(a) ==
    /\ Len(inv[a].buf) < inv[a].k
    /\ inv[a].n = <<>>
    /\ inv' = [inv EXCEPT ![a].n = <<sample_clock>>]
    /\ sample_clock' = sample_clock + 1
    /\ indices' = Append(indices, sample_clock)
    /\ UNCHANGED <<wall, cfgVars, pc, site, last_play, result, stream, live,
                   total_samples, finished, call_wall, waited, polls, observed,
                   drained, error, hostVars, fade_samples, channels, format,
                   volume, frames, delivered>>

\* WriteFrame with the end of the tone tested by n > total_samples.
WriteFrame_Strict(a) ==
    /\ inv[a].n # <<>>
    /\ LET n == inv[a].n[1]
           x == IF n > total_samples
                   THEN Zero
                   ELSE Sample(n, total_samples, fade_samples, volume)
       IN  /\ finished' = (finished \/ n > total_samples)
           /\ inv' = [inv EXCEPT ![a].n = <<>>,
                                 ![a].buf = Append(@, [n |-> n,
                                                       ch |-> Frame(x, channels)])]
    /\ frames' = frames + 1
    /\ UNCHANGED <<wall, cfgVars, pc, site, last_play, result, stream, live,
                   total_samples, sample_clock, call_wall, waited, polls,
                   observed, drained, error, hostVars, fade_samples, channels,
                   format, volume, indices, delivered>>

\* WriteFrame that stores the flag one frame before the end of the tone.
WriteFrame_Premature(a) ==
    /\ inv[a].n # <<>>
    /\ LET n == inv[a].n[1]
           x == IF n >= total_samples
                   THEN Zero
                   ELSE Sample(n, total_samples, fade_samples, volume)
       IN  /\ finished' = (finished \/ n + 1 >= total_samples)
           /\ inv' = [inv EXCEPT ![a].n = <<>>,
                                 ![a].buf = Append(@, [n |-> n,
                                                       ch |-> Frame(x, channels)])]
    /\ frames' = frames + 1
    /\ UNCHANGED <<wall, cfgVars, pc, site, last_play, result, stream, live,
                   total_samples, sample_clock, call_wall, waited, polls,
                   observed, drained, error, hostVars, fade_samples, channels,
                   format, volume, indices, delivered>>

\* The rest of the loop body of write_samples for the frame of index n: past
\* the end the flag is stored and the frame is silence, else the sample.
WriteFrame(a) ==
    /\ inv[a].n # <<>>
    /\ LET n == inv[a].n[1]
           x == IF n >= total_samples
                   THEN Zero
                   ELSE Sample(n, total_samples, fade_samples, volume)
       IN  /\ finished' = (finished \/ n >= total_samples)
           /\ inv' = [inv EXCEPT ![a].n = <<>>,
                                 ![a].buf = Append(@, [n |-> n,
                                                       ch |-> Frame(x, channels)])]
    /\ frames' = frames + 1
    /\ UNCHANGED <<wall, cfgVars, pc, site, last_play, result, stream, live,
                   total_samples, sample_clock, call_wall, waited, polls,
                   observed, drained, error, hostVars, fade_samples, channels,
                   format, volume, indices, delivered>>

\* write_samples has returned: the closure converts the samples to the
\* device's format (lines 134-136, 156-158) and the callback returns.
CallbackEnd(a) ==
    /\ inv[a].k > 0
    /\ Len(inv[a].buf) = inv[a].k
    /\ LET buf == inv[a].buf
       IN  delivered' =
              [ns |-> [i \in 1..Len(buf) |-> buf[i].n],
               floats |-> [i \in 1..Len(buf) |-> buf[i].ch],
               data |-> [i \in 1..Len(buf) |->
                           [c \in 1..channels |-> ToWire(format, buf[i].ch[c])]]]
    /\ inv' = [inv EXCEPT ![a] = Idle]
    /\ UNCHANGED <<schedVars, hostVars, fade_samples, channels, format, volume,
                   indices, frames>>

\* --------------------------------------------- get_device and list_devices

\* The names a device reports.
DeviceNameSet == {<<"A", "b">>, <<"a", "b">>, <<"b">>, <<>>}

\* device_name(&device): Some(name) is <<name>>, None is <<>>.
NameOptions == {<<>>} \cup {<<nm>> : nm \in DeviceNameSet}

\* The device names asked for.
QuerySet == {<<>>, <<"a">>, <<"B">>, <<"a", "B">>, <<"b", "a">>}

\* The text format! appends to the default device's name.
DefaultMark == " (default)"

\* char::to_lowercase
ToLowerChar(c) ==
    CASE c = "A" -> "a"
      [] c = "B" -> "b"
      [] OTHER -> c

\* ToLowercase that leaves the case as it is.
ToLowercase_AsIs(str) == str

\* str::to_lowercase
ToLowercase(str) == [i \in 1..Len(str) |-> ToLowerChar(str[i])]

\* str::contains
Contains(str, pat) ==
    \E i \in 1..(Len(str) - Len(pat) + 1) : SubSeq(str, i, i + Len(pat) - 1) = pat

Ok(i) == [op |-> "get_device", ok |-> TRUE, dev |-> i, names |-> <<>>,
          err |-> "none"]

Err(op, e) == [op |-> op, ok |-> FALSE, dev |-> 0, names |-> <<>>, err |-> e]

\* The for loop of get_device from device i on: the first device that has a
\* name containing nm, case ignored; 0 when the devices are exhausted.
RECURSIVE FirstMatch(_, _, _)
FirstMatch(devs, i, nm) ==
    IF i > Len(devs)
       THEN 0
       ELSE IF /\ devs[i] # <<>>
               /\ Contains(ToLowercase(devs[i][1]), ToLowercase(nm))
               THEN i
               ELSE FirstMatch(devs, i + 1, nm)

\* get_device(name)
get_device(nm) ==
    IF nm = <<>>
       THEN IF default_device # 0
               THEN Ok(default_device)
               ELSE Err("get_device", "No default output device found")
       ELSE IF ~enum_ok
               THEN Err("get_device", "Failed to enumerate devices")
               ELSE LET i == FirstMatch(devices, 1, nm)
                    IN  IF i # 0
                           THEN Ok(i)
                           ELSE Err("get_device", "No output device matching found")

\* The for loop of list_devices from device i on.
RECURSIVE ListNames(_, _, _)
ListNames(devs, i, default_name) ==
    IF i > Len(devs)
       THEN <<>>
       ELSE IF devs[i] = <<>>
               THEN ListNames(devs, i + 1, default_name)
               ELSE LET nm == devs[i][1]
                        is_default == nm = default_name
                    IN  <<IF is_default THEN Append(nm, DefaultMark) ELSE nm>>
                           \o ListNames(devs, i + 1, default_name)

\* list_devices()
list_devices ==
    IF ~enum_ok
       THEN Err("list_devices", "Failed to enumerate devices")
       ELSE LET default_name ==
                   IF default_device # 0 /\ devices[default_device] # <<>>
                      THEN devices[default_device][1]
                      ELSE <<>>
            IN  [op |-> "list_devices", ok |-> TRUE, dev |-> 0,
                 names |-> ListNames(devices, 1, default_name), err |-> "none"]

\* A host with its devices, and a device name asked for.
HostInit ==
    /\ wall = 0
    /\ interval = 0
    /\ duration = 0
    /\ pc = "start"
    /\ site = "init"
    /\ last_play = UNIX_EPOCH
    /\ result = "ok"
    /\ stream = "none"
    /\ live = 0
    /\ total_samples = 0
    /\ sample_clock = 0
    /\ finished = FALSE
    /\ call_wall = 0
    /\ waited = 0
    /\ polls = 0
    /\ observed = FALSE
    /\ drained = FALSE
    /\ error = "none"
    /\ FrameRest
    /\ devices \in UNION {[1..m -> NameOptions] : m \in 0..MaxDevices}
    /\ default_device \in 0..Len(devices)
    /\ enum_ok \in BOOLEAN
    /\ name \in QuerySet
    /\ out = NoOut

\* get_device(&config.device) is called and returns.
CallGetDevice ==
    /\ out = NoOut
    /\ out' = get_device(name)
    /\ UNCHANGED <<schedVars, frameVars, devices, default_device, enum_ok,
                   name>>

\* list_devices() is called and returns.
CallListDevices ==
    /\ out = NoOut
    /\ out' = list_devices
    /\ UNCHANGED <<schedVars, frameVars, devices, default_device, enum_ok,
                   name>>

\* ---------------------------------------------------------- specification

PlayTone ==
    \/ GetDevice
    \/ OutputConfig
    \/ BuildStream
    \/ StreamPlay
    \/ WaitLoad
    \/ WaitSleep
    \/ DrainSleep
    \/ DropStream

Run ==
    \/ RunStart
    \/ InitialResult
    \/ PollSleep
    \/ Poll
    \/ LoopResult
    \/ RetrySleep

Controller == Run \/ PlayTone

Environment == SystemSleep \/ ClockSetBack

Next == Controller \/ Callback \/ Environment

Spec == Init /\ [][Next]_vars

\* The controller thread is scheduled; the backend is not assumed to call back.
CtrlFairSpec == Spec /\ WF_vars(Controller)

\* The controller thread is scheduled and the backend keeps invoking the
\* callback of a playing stream.
FairSpec == Spec /\ WF_vars(Controller) /\ WF_vars(Callback)

\* A step of one of the callbacks in S.
Callbacks(S) ==
    \E a \in S :
        \/ CallbackBegin(a)
        \/ FetchAdd(a)
        \/ WriteFrame(a)
        \/ CallbackEnd(a)

\* The callbacks of one started session, frame by frame, one callback after
\* the other as the backend runs them.
SessNext == Callbacks({"cb1"})

SessSpec == SessInit /\ [][SessNext]_vars

\* The same while play_tone waits for the flag and sleeps the drain delay.
DrainNext ==
    \/ Callbacks({"cb1"})
    \/ WaitLoad
    \/ WaitSleep
    \/ DrainSleep

DrainSpec == DrainInit /\ [][DrainNext]_vars

\* The same with two callbacks that may overlap, as the atomics they share
\* would let them.
RaceNext == Callbacks(Invokers)

RaceSpec == RaceInit /\ [][RaceNext]_vars

\* The device selection on every host.
HostNext == CallGetDevice \/ CallListDevices

HostSpec == HostInit /\ [][HostNext]_vars

\* ------------------------------------------------------------------ claims

\* A poll: the step of run that evaluates the due condition.
PollStep == pc = "check" /\ pc' # "check"

\* The poll starts a tone (calls play_tone).
StartsTone == pc' = "get_device" /\ site' = "loop"

\* The step of run that takes a successful play_tone result.
OkStep == pc = "ret" /\ result = "ok" /\ pc' # "ret"

\* The step of run that takes a failed play_tone result.
ErrStep == pc = "ret" /\ result = "err" /\ pc' # "ret"

\* C1 as stated: at every poll play_tone is called if and only if the wall
\* clock time elapsed since last_play is at least the interval.
C1_DueIffElapsed ==
    [][PollStep => (StartsTone <=> wall - last_play >= IntervalMs)]_vars

\* C1 amended: at every poll play_tone is called if and only if the wall clock
\* time elapsed since last_play is at least the interval or the wall clock
\* reads earlier than last_play.
C1_DueIffElapsedOrBackward ==
    [][PollStep =>
         (StartsTone <=> (wall - last_play >= IntervalMs \/ wall < last_play))]_vars

\* C1 witness: a poll at which the clock read earlier than last_play has
\* started a tone.
C1_Witness ==
    /\ pc = "get_device"
    /\ site = "loop"
    /\ call_wall < last_play
    /\ IntervalMs > 0

\* C2: a failed play_tone call of the loop leaves last_play unchanged, and
\* last_play changes only in the step that takes a successful result.
C2_FailureKeepsLastPlay ==
    [][/\ (ErrStep /\ site = "loop") => last_play' = last_play
       /\ last_play' # last_play => OkStep]_vars

\* C2 witness: a call of the loop has failed and last_play still holds the
\* time of an earlier success.
C2_Witness ==
    /\ pc = "retry_sleep"
    /\ result = "err"
    /\ last_play > UNIX_EPOCH

\* C3: a successful play_tone sets last_play to the wall clock time of that
\* moment, and a later poll at which the clock has not moved backward past
\* last_play and has advanced by less than the interval beyond it is not due.
C3_NotDueUntilInterval ==
    [][/\ OkStep => last_play' = wall
       /\ (PollStep /\ result = "ok" /\ wall >= last_play
             /\ wall - last_play < IntervalMs) => pc' = "poll_sleep"]_vars

\* C3 witness: one poll interval after a success, with the clock advanced by
\* just that second, the poll found the tone not due.
C3_Witness ==
    /\ pc = "poll_sleep"
    /\ result = "ok"
    /\ waited = POLL_INTERVAL
    /\ wall - last_play = POLL_INTERVAL
    /\ IntervalMs > POLL_INTERVAL

\* C4: a poll at which the wall clock is at least the interval past last_play
\* starts a tone at once, however little time the thread itself has slept.
C4_DueAfterJump ==
    [][(PollStep /\ wall >= last_play /\ wall - last_play >= IntervalMs)
          => (StartsTone /\ call_wall' = wall)]_vars

\* C4 witness: run slept one poll interval since the last success, the wall
\* clock jumped past the longer interval meanwhile, and the poll started a tone.
C4_Witness ==
    /\ pc = "get_device"
    /\ site = "loop"
    /\ result = "ok"
    /\ waited = POLL_INTERVAL
    /\ IntervalMs > POLL_INTERVAL
    /\ call_wall - last_play >= IntervalMs

\* C5 as stated: at every poll after a failed play_tone call, the initial one
\* included, run has slept at least the retry delay since the call returned.
C5_RetryDelayAfterEveryFailure ==
    (pc = "check" /\ result = "err") => waited >= RETRY_DELAY

\* C5 amended: at every poll after a failed call of the loop run has slept the
\* retry delay and the poll interval; after a failed initial call it has slept
\* the poll interval, which the first poll after it shows to be all.
C5_RetryDelayAfterLoopFailure ==
    (pc = "check" /\ result = "err") =>
        IF site = "loop"
           THEN waited >= RETRY_DELAY + POLL_INTERVAL
           ELSE waited >= POLL_INTERVAL

\* C5 witness: the poll after a failed call of the loop, six seconds later.
C5_Witness ==
    /\ pc = "check"
    /\ result = "err"
    /\ site = "loop"
    /\ waited = RETRY_DELAY + POLL_INTERVAL

\* The positions of run and of the play_tone calls it makes.
RunPcs ==
    {"start", "get_device", "output_config", "build", "play", "wait",
     "wait_sleep", "drain", "drop", "ret", "poll_sleep", "check", "retry_sleep"}

\* C6 as stated: run never leaves its loop and from every reachable state it
\* reaches another poll.
C6_AlwaysPollsAgain == [](pc \in RunPcs) /\ []<>(pc = "check")

\* C6 amended: run never leaves its loop, and it reaches another poll from
\* every reachable state provided the backend keeps invoking the callback of a
\* playing stream.
C6_PollsAgainIfCallbackRuns ==
    [](pc \in RunPcs) /\ (WF_vars(Callback) => []<>(pc = "check"))

\* C6 witness: the initial tone failed and run is at a poll of its loop.
C6_Witness ==
    /\ pc = "check"
    /\ result = "err"
    /\ site = "init"

\* C7 as stated: last_play is the clock value read when the successful
\* play_tone call began.
C7_LastPlayIsStart == [][OkStep => last_play' = call_wall]_vars

\* C7 amended: last_play is the clock value read after the successful
\* play_tone call returned, that is after the tone and the drain delay.
C7_LastPlayIsReturn == [][OkStep => (last_play' = wall /\ drained)]_vars

\* C7 witness: a call of the loop succeeded and last_play is the time of its
\* return, later than the time it began.
C7_Witness ==
    /\ pc = "poll_sleep"
    /\ site = "loop"
    /\ result = "ok"
    /\ waited = 0
    /\ last_play = wall
    /\ last_play > call_wall

\* C8: at most one stream exists at any time, and none exists when play_tone
\* is called nor before it builds its own.
C8_NoOverlap ==
    /\ live <= 1
    /\ (stream = "none") <=> (live = 0)
    /\ pc \in {"start", "check", "ret", "poll_sleep", "retry_sleep",
               "get_device", "output_config", "build"} => live = 0

\* C8 witness: the stream of a later call is playing, alone.
C8_Witness ==
    /\ site = "loop"
    /\ stream = "playing"
    /\ live = 1

\* The state of the playback session, from the position of play_tone.
Phase ==
    CASE pc \in {"get_device", "output_config", "build", "play"} -> "Opening"
      [] pc \in {"wait", "wait_sleep"} -> "Playing"
      [] pc \in {"drain", "drop"} -> "Draining"
      [] pc = "ret" -> "Closed"
      [] OTHER -> "Idle"

\* The order of the session's states: a failure closes an opening session.
PhaseOrder ==
    {<<"Idle", "Opening">>, <<"Opening", "Opening">>, <<"Opening", "Playing">>,
     <<"Opening", "Closed">>, <<"Playing", "Playing">>, <<"Playing", "Draining">>,
     <<"Draining", "Draining">>, <<"Draining", "Closed">>, <<"Closed", "Idle">>,
     <<"Idle", "Idle">>}

\* play_tone returns Ok.
ReturnsOk == pc # "ret" /\ pc' = "ret" /\ result' = "ok"

\* C9 as stated: the session's states follow in order, play_tone returns Ok
\* only with the stream dropped, and no stream is torn down unless the flag
\* was observed true and the drain delay was slept.
C9_DropOnlyAfterDrain ==
    [][/\ <<Phase, Phase'>> \in PhaseOrder
       /\ ReturnsOk => (stream' = "none" /\ live' = 0)
       /\ (stream # "none" /\ stream' = "none")
             => (finished /\ observed /\ drained)]_vars

\* C9 amended: the same, for a stream that has started playing (one whose
\* start failed is dropped at once, its flag still false).
C9_StartedDropOnlyAfterDrain ==
    [][/\ <<Phase, Phase'>> \in PhaseOrder
       /\ ReturnsOk => (stream' = "none" /\ live' = 0)
       /\ (stream = "playing" /\ stream' = "none")
             => (finished /\ observed /\ drained /\ ReturnsOk)
       /\ drained' => observed'
       /\ observed' => (observed \/ finished)]_vars

\* C9 witness: play_tone has returned Ok, its stream dropped after the flag
\* was observed and the drain delay slept.
C9_Witness ==
    /\ pc = "ret"
    /\ result = "ok"
    /\ stream = "none"
    /\ observed
    /\ drained

\* C10: with the controller scheduled and the callback kept invoked, a started
\* play_tone returns Ok, and it returns only when every frame of the tone has
\* been produced, completion observed and the drain delay slept.
C10_StartedReturnsOk ==
    /\ (pc = "wait") ~> (pc = "ret" /\ result = "ok")
    /\ [][ReturnsOk => (sample_clock > total_samples /\ observed /\ drained)]_vars

\* C10 witness: a tone of positive length is complete and drained after the
\* controller has slept in the wait loop; play_tone is about to return.
C10_Witness ==
    /\ pc = "drop"
    /\ total_samples > 0
    /\ sample_clock > total_samples
    /\ polls > 0
    /\ drained

\* play_tone returns Err.
ReturnsErr == pc # "ret" /\ pc' = "ret" /\ result' = "err"

\* The stages of play_tone that can fail, with the stage after each.
NextStage ==
    [get_device |-> "output_config", output_config |-> "build",
     build |-> "play", play |-> "wait"]

\* The messages of the errors each stage returns.
StageErrors ==
    [get_device |-> GetDeviceErrors,
     output_config |-> {"Failed to get default output config"},
     build |-> {"Unsupported sample format", "Failed to build output stream"},
     play |-> {"Failed to play stream"}]

\* C11: a failure of a stage makes play_tone return Err in that very step,
\* with the message of that stage, no time slept and no stream left; the
\* stages are taken once each and in order; an unsupported sample format
\* returns with no stream ever built; a call that fails has not entered the
\* completion wait nor the drain delay, and one that entered them holds a
\* playing stream and fails no more.
C11_FailureReturnsAtOnce ==
    [][/\ ReturnsErr =>
             /\ pc \in DOMAIN NextStage
             /\ error' \in StageErrors[pc]
             /\ wall' = wall
             /\ stream' = "none" /\ live' = 0
             /\ ~observed' /\ ~drained'
       /\ (pc \in DOMAIN NextStage /\ pc' # pc) =>
             (pc' = NextStage[pc] /\ error' = "none") \/ ReturnsErr
       /\ (ReturnsErr /\ error' = "Unsupported sample format") =>
             (pc = "build" /\ stream = "none" /\ live = 0)
       /\ pc' \in {"wait", "wait_sleep", "drain", "drop"} =>
             (stream' = "playing" /\ error' = "none" /\ ~ReturnsErr)]_vars

\* C11 witness: a call of the loop has returned the error of an unsupported
\* sample format, no stream built.
C11_Witness ==
    /\ pc = "ret"
    /\ site = "loop"
    /\ result = "err"
    /\ error = "Unsupported sample format"
    /\ live = 0

\* Device name dn contains the name q as a substring, case ignored.
MatchesIgnoringCase(dn, q) ==
    \E i \in 0..(Len(dn) - Len(q)) :
        \A j \in 1..Len(q) : ToLowerChar(dn[i + j]) = ToLowerChar(q[j])

\* The places of the enumerated devices whose name matches the name asked for.
Matching ==
    {i \in 1..Len(devices) :
        devices[i] # <<>> /\ MatchesIgnoringCase(devices[i][1], name)}

\* C12: for the empty name get_device returns the host's default device, an
\* error if there is none; for another name, the devices enumerated, it
\* returns the first device in enumeration order whose name contains the name
\* asked for, case ignored, and a not-found error if there is no such device.
C12_GetDevice ==
    out.op = "get_device" =>
        IF name = <<>>
           THEN IF default_device # 0
                   THEN out.ok /\ out.dev = default_device
                   ELSE ~out.ok /\ out.err = "No default output device found"
           ELSE enum_ok =>
                   IF Matching = {}
                      THEN ~out.ok /\ out.err = "No output device matching found"
                      ELSE /\ out.ok
                           /\ out.dev \in Matching
                           /\ \A i \in Matching : out.dev <= i

\* C12 witness: the name aB was asked for; the first device does not match
\* and the second, named Ab, is returned.
C12_Witness ==
    /\ out.op = "get_device"
    /\ out.ok
    /\ out.dev = 2
    /\ name = <<"a", "B">>
    /\ devices[2] = <<(<<"A", "b">>)>>

\* The entry of list_devices carries the annotation of the default device.
Annotated(entry) == Len(entry) > 0 /\ entry[Len(entry)] = DefaultMark

\* The devices that report a name, in enumeration order.
NamedDevices == SelectSeq(devices, LAMBDA d : d # <<>>)

\* The entries of list_devices are the names of the devices in enumeration
\* order, each as it is or with the annotation.
NamesInOrder ==
    /\ Len(out.names) = Len(NamedDevices)
    /\ \A i \in 1..Len(out.names) :
          out.names[i] \in {NamedDevices[i][1],
                            Append(NamedDevices[i][1], DefaultMark)}

\* The entries of list_devices that carry the annotation.
AnnotatedEntries == {i \in 1..Len(out.names) : Annotated(out.names[i])}

\* The host has a default device, and it reports a name.
HasNamedDefault == default_device # 0 /\ devices[default_device] # <<>>

\* C13 as stated, on a host whose default device reports a name:
\* list_devices returns the names of the devices in enumeration order and
\* exactly one entry carries the annotation.
C13_ExactlyOneDefault ==
    (out.op = "list_devices" /\ out.ok /\ HasNamedDefault) =>
        (NamesInOrder /\ Cardinality(AnnotatedEntries) = 1)

\* C13, what list_devices does: the names are in enumeration order and an
\* entry carries the annotation exactly when its name is the name of the
\* default device (the empty name if the host has no default device or the
\* default device reports none).
C13_AnnotatedIffDefaultName ==
    (out.op = "list_devices" /\ out.ok) =>
        /\ NamesInOrder
        /\ \A i \in 1..Len(out.names) :
              Annotated(out.names[i]) <=>
                 NamedDevices[i][1] = (IF HasNamedDefault
                                          THEN devices[default_device][1]
                                          ELSE <<>>)

\* C13 witness: two devices share the name of the default device and both
\* entries carry the annotation.
C13_Witness ==
    /\ out.op = "list_devices"
    /\ out.ok
    /\ HasNamedDefault
    /\ Cardinality(AnnotatedEntries) = 2

\* The frames write_samples has written into the buffers at hand: those of
\* the callbacks in progress and those of the buffer completed last.
WrittenFrames ==
    UNION {{inv[a].buf[i] : i \in 1..Len(inv[a].buf)} : a \in Invokers}
       \cup {[n |-> delivered.ns[i], ch |-> delivered.floats[i]] :
                i \in 1..Len(delivered.ns)}

\* Every channel of frame f holds exactly 0.0.
Silent(f) == Len(f.ch) = channels /\ \A c \in 1..channels : f.ch[c] = Zero

\* Callback a has written a frame in this step.
Wrote(a) == Len(inv'[a].buf) > Len(inv[a].buf)

\* The frame callback a has written in this step.
NewFrame(a) == inv'[a].buf[Len(inv'[a].buf)]

\* C14: every frame of index n >= total_samples holds exactly 0.0 in every
\* channel and the flag is true once it is written; every frame written once
\* the flag is true, those written while the controller sleeps the drain
\* delay among them, is such a frame of silence.
C14_SilencePastEnd ==
    /\ [](\A f \in WrittenFrames :
             f.n >= total_samples => (Silent(f) /\ finished))
    /\ [][\A a \in Invokers :
             (Wrote(a) /\ (finished \/ pc \in {"drain", "drop"})) =>
                (NewFrame(a).n >= total_samples /\ Silent(NewFrame(a)))]_vars

\* C14 witness: a tone of two channels has ended, the controller is in the
\* drain delay and the callback is writing a further frame past the end.
C14_Witness ==
    /\ pc = "drain"
    /\ total_samples > 0
    /\ channels = 2
    /\ finished
    /\ \E i \in 1..Len(inv["cb1"].buf) : inv["cb1"].buf[i].n > total_samples

\* Callback a has, in this step, written the frame of an index >= total_samples.
WrotePastEnd(a) ==
    /\ inv[a].n # <<>>
    /\ inv[a].n[1] >= total_samples
    /\ inv'[a].n = <<>>

\* C15: the flag is false when the session starts, is never reset once true,
\* becomes true only in the step that writes a frame of index
\* >= total_samples, and while it is true such an index has been handed out
\* and its frame written.
C15_FlagSetOnceAtEnd ==
    /\ [](indices = <<>> => ~finished)
    /\ [][finished => finished']_vars
    /\ [][(~finished /\ finished') => \E a \in Invokers : WrotePastEnd(a)]_vars
    /\ [](finished =>
             \E i \in 1..Len(indices) :
                 /\ indices[i] >= total_samples
                 /\ \A a \in Invokers : inv[a].n # <<indices[i]>>)

\* C15 witness: the flag of a tone of positive length is true while a frame
\* of the tone itself, handed out earlier, is still to be written.
C15_Witness ==
    /\ finished
    /\ total_samples > 0
    /\ \E a \in Invokers : inv[a].n # <<>> /\ inv[a].n[1] < total_samples

\* The number of callbacks that hold an index whose frame is not written yet.
InHand == Cardinality({a \in Invokers : inv[a].n # <<>>})

\* C16: the indices handed out are 0, 1, 2, ... in this order, without gap
\* or duplicate; the clock is their number, moves only up and by one per
\* frame; it equals the number of frames written when no frame is in hand.
C16_ClockCountsFrames ==
    /\ [](/\ Len(indices) = sample_clock
          /\ \A i \in 1..Len(indices) : indices[i] = i - 1
          /\ sample_clock = frames + InHand)
    /\ [][/\ sample_clock' \in {sample_clock, sample_clock + 1}
          /\ frames' \in {frames, frames + 1}]_vars

\* C16 witness: two callbacks overlap, each holding an index of its own, after
\* each of them has written a frame.
C16_Witness ==
    /\ inv["cb1"].n # <<>>
    /\ inv["cb2"].n # <<>>
    /\ inv["cb1"].n # inv["cb2"].n
    /\ Len(inv["cb1"].buf) > 0
    /\ Len(inv["cb2"].buf) > 0

\* Fractions <<numerator, denominator>> of positive denominator, compared.
Eq(x, y) == x[1] * y[2] = y[1] * x[2]
Less(x, y) == x[1] * y[2] < y[1] * x[2]

\* The envelope of frame n in this session.
Env(n) == Envelope(n, total_samples, fade_samples)

\* The sample of a frame of the tone whose envelope is the fraction e.
Scaled(n, e) == <<Sine(n) * e[1] * volume[1], e[2] * volume[2]>>

\* C17: for every n < fade_samples short of total_samples the envelope is
\* n / fade_samples, 0 at n = 0 and strictly increasing in n, and the frame
\* written for n carries the sine scaled by it.
C17_FadeInRamp ==
    /\ \A n \in 0..(Min(fade_samples, total_samples) - 1) :
          /\ Eq(Env(n), <<n, fade_samples>>)
          /\ n = 0 => Eq(Env(n), Zero)
          /\ n + 1 < Min(fade_samples, total_samples) => Less(Env(n), Env(n + 1))
    /\ \A f \in WrittenFrames :
          (f.n < fade_samples /\ f.n < total_samples) =>
             \A c \in 1..channels : Eq(f.ch[c], Scaled(f.n, <<f.n, fade_samples>>))

\* C17 witness: with three fade frames the frame of index 1, a third of the
\* way up, has been written at full volume.
C17_Witness ==
    /\ fade_samples = 3
    /\ volume = One
    /\ \E f \in WrittenFrames : f.n = 1 /\ Eq(f.ch[1], <<1, 3>>)

\* The gain of frame n: its envelope, and 0 from total_samples on, where the
\* frame is silence.
Gain(n) == IF n >= total_samples THEN Zero ELSE Env(n)

\* C18 as stated, for the fades no longer than the tone: over the n with
\* total_samples - fade_samples < n <= total_samples the envelope is strictly
\* decreasing, and <= 0 at n = total_samples.
C18_FadeOutDecreasing ==
    fade_samples <= total_samples =>
        /\ \A n \in 0..total_samples : \A m \in 0..total_samples :
              (total_samples - fade_samples < n /\ n < m) =>
                 Less(Gain(m), Gain(n))
        /\ Gain(total_samples)[1] <= 0

\* C18 amended: over the n with fade_samples <= n and total_samples -
\* fade_samples <= n < total_samples the envelope is (total_samples - n) /
\* fade_samples, positive and strictly decreasing in n; for n < fade_samples
\* it is the fade in n / fade_samples, also where n > total_samples -
\* fade_samples; from n = total_samples on the frame is silence. The frames
\* written carry the sine scaled so.
C18_FadeOutPastFadeIn ==
    /\ \A n \in 0..(total_samples - 1) :
          /\ (fade_samples <= n /\ total_samples - fade_samples <= n) =>
                /\ Eq(Env(n), <<total_samples - n, fade_samples>>)
                /\ Less(Zero, Env(n))
                /\ n + 1 < total_samples => Less(Env(n + 1), Env(n))
          /\ n < fade_samples => Eq(Env(n), <<n, fade_samples>>)
    /\ \A f \in WrittenFrames :
          /\ (fade_samples <= f.n /\ total_samples - fade_samples < f.n
                 /\ f.n < total_samples) =>
                \A c \in 1..channels :
                    Eq(f.ch[c], Scaled(f.n, <<total_samples - f.n, fade_samples>>))
          /\ f.n >= total_samples => Silent(f)

\* C18 witness: of a tone of four frames with two fade frames the last frame,
\* half way down, has been written at full volume.
C18_Witness ==
    /\ total_samples = 4
    /\ fade_samples = 2
    /\ volume = One
    /\ \E f \in WrittenFrames : f.n = 3 /\ Eq(f.ch[1], <<-1, 2>>)

\* C19: every frame is monophonic: write_samples gives all the channels of a
\* frame the same sample, and the buffer handed to the device holds the same
\* value in all the channels of a frame, in each of the three formats.
C19_Monophonic ==
    /\ \A f \in WrittenFrames :
          /\ Len(f.ch) = channels
          /\ \A c \in 1..channels : f.ch[c] = f.ch[1]
    /\ \A i \in 1..Len(delivered.data) :
          /\ Len(delivered.data[i]) = channels
          /\ \A c \in 1..channels : delivered.data[i][c] = delivered.data[i][1]

\* C19 witness: a signed 16-bit buffer of two channels has been handed over
\* with a frame that is not silence.
C19_Witness ==
    /\ format = "I16"
    /\ channels = 2
    /\ \E i \in 1..Len(delivered.data) :
          /\ delivered.data[i][1] # 0
          /\ delivered.data[i][2] = delivered.data[i][1]

\* C20: what is handed to the device is a function of the sample alone (equal
\* samples give equal values, whatever was converted before), and the sample
\* 0.0 gives 0 in the signed and 32767 or 32768 in the unsigned 16-bit format.
C20_ConversionOfZero ==
    /\ ToI16(Zero) = 0
    /\ ToU16(Zero) \in {32767, 32768}
    /\ \A i \in 1..Len(delivered.data) : \A c \in 1..channels :
          /\ delivered.data[i][c] = ToWire(format, delivered.floats[i][c])
          /\ \A j \in 1..Len(delivered.data) : \A d \in 1..channels :
                delivered.floats[i][c] = delivered.floats[j][d] =>
                   delivered.data[i][c] = delivered.data[j][d]
          /\ (format = "I16" /\ delivered.floats[i][c][1] = 0) =>
                delivered.data[i][c] = 0
          /\ (format = "U16" /\ delivered.floats[i][c][1] = 0) =>
                delivered.data[i][c] \in {32767, 32768}

\* C20 witness: an unsigned 16-bit buffer has been handed over in which a
\* frame of silence past the end of the tone is 32767 and the frame before
\* it, of the tone, is not.
C20_Witness ==
    /\ format = "U16"
    /\ Len(delivered.data) = 2
    /\ delivered.ns[2] >= total_samples
    /\ delivered.data[2][1] = 32767
    /\ delivered.data[1][1] # 32767

\* The fraction x is the result of a division whose divisor is not zero, and
\* lies in [0, 1].
InUnit(x) == x[2] > 0 /\ 0 <= x[1] /\ x[1] <= x[2]

\* The magnitude of the fraction x of positive denominator.
Magnitude(x) == <<IF x[1] < 0 THEN -x[1] ELSE x[1], x[2]>>

\* C21: for every n < total_samples, whatever fade_samples is (0 and values
\* above total_samples included), the envelope is a quotient by a divisor
\* that is not zero and lies in [0, 1], and every sample written, in and past
\* the tone, has a magnitude of at most the clamped volume.
C21_EnvelopeInUnit ==
    /\ InUnit(volume)
    /\ \A n \in 0..(total_samples - 1) : InUnit(Env(n))
    /\ \A f \in WrittenFrames : \A c \in 1..Len(f.ch) :
          /\ f.ch[c][2] > 0
          /\ ~Less(volume, Magnitude(f.ch[c]))
          /\ f.n < total_samples => Eq(f.ch[c], Scaled(f.n, Env(f.n)))

\* C21 witness: with a fade longer than the whole tone, at half volume, the
\* frame of index 1 has been written and is not silence.
C21_Witness ==
    /\ fade_samples > total_samples
    /\ volume = <<1, 2>>
    /\ \E f \in WrittenFrames :
          /\ f.n = 1
          /\ f.n < total_samples
          /\ f.ch[1][1] # 0

\* One evaluation of an unsigned (u64) subtraction a - b.
Sub(what, a, b) == [what |-> what, minuend |-> a, subtrahend |-> b]

\* a - b is below zero: the u64 subtraction panics in a build with overflow
\* checks and wraps around to a - b + 2^64 in one without.
Underflows(sub) == sub.minuend < sub.subtrahend

\* Subtractions with the fade out tested before the fade in.
Subtractions_FadeOutFirst(n, total, fade) ==
    IF n >= total
       THEN <<>>
       ELSE IF total >= fade /\ n > total - fade
               THEN <<Sub("total_samples - fade_samples", total, fade),
                      Sub("total_samples - n", total, n)>>
               ELSE <<Sub("total_samples - fade_samples", total, fade)>>

\* The unsigned subtractions the loop body of write_samples evaluates for the
\* frame of index n, in order: none in the silence branch and in the fade in,
\* total_samples - fade_samples in the test of the fade out, total_samples - n
\* in the fade out.
Subtractions(n, total, fade) ==
    IF n >= total
       THEN <<>>
       ELSE IF n < fade
               THEN <<>>
               ELSE IF n > total - fade
                       THEN <<Sub("total_samples - fade_samples", total, fade),
                              Sub("total_samples - n", total, n)>>
                       ELSE <<Sub("total_samples - fade_samples", total, fade)>>

\* The subtractions evaluated for frame n in this session.
Subs(n) == Subtractions(n, total_samples, fade_samples)

\* C22: for every frame index the loop body has run with, no subtraction it
\* evaluates underflows: total_samples - fade_samples is evaluated only with
\* fade_samples <= n < total_samples and total_samples - n only with
\* n < total_samples; the envelope is the value of the branch these
\* evaluations lead to.
C22_NoUnderflow ==
    \A i \in 1..Len(indices) :
       LET n == indices[i]
       IN  /\ \A j \in 1..Len(Subs(n)) :
                 LET sub == Subs(n)[j]
                 IN  /\ ~Underflows(sub)
                     /\ sub.minuend = total_samples
                     /\ n < total_samples
                     /\ sub.what = "total_samples - fade_samples" =>
                           (sub.subtrahend = fade_samples /\ fade_samples <= n)
                     /\ sub.what = "total_samples - n" => sub.subtrahend = n
           /\ n < total_samples =>
                 Env(n) = CASE Len(Subs(n)) = 2 ->
                                  <<total_samples - n, fade_samples>>
                            [] Len(Subs(n)) = 1 -> One
                            [] OTHER -> <<n, fade_samples>>

\* C22 witness: a frame of the fade out has been written, for which both
\* subtractions were evaluated, and one past the end of the tone, for which
\* none was.
C22_Witness ==
    /\ fade_samples > 0
    /\ \E f \in WrittenFrames : Len(Subs(f.n)) = 2
    /\ \E f \in WrittenFrames : f.n > total_samples /\ Subs(f.n) = <<>>

\* C23: at a poll at which the wall clock reads earlier than last_play the
\* elapsed time is taken to be the interval, so the tone is due and play_tone
\* is called at that poll, at the time the clock then shows.
C23_BackwardClockIsDue ==
    [][(PollStep /\ wall < last_play) =>
          /\ Elapsed(wall, last_play) = IntervalMs
          /\ StartsTone
          /\ call_wall' = wall]_vars

\* C23 witness: a tone was played, run slept one poll interval, shorter than
\* the interval, the clock was set backward past last_play meanwhile, and the
\* poll has called play_tone.
C23_Witness ==
    /\ pc = "get_device"
    /\ site = "loop"
    /\ result = "ok"
    /\ last_play > UNIX_EPOCH
    /\ call_wall < last_play
    /\ waited = POLL_INTERVAL
    /\ IntervalMs > POLL_INTERVAL

====
